---- MODULE Spec2Model ----
(***************************************************************************)
(* Layout propagation engine of the nested Accordion widget                *)
(* (src/src/accordion.js, with the older variant in src/accordion.js).     *)
(*                                                                         *)
(* The document holds three accordion containers: 1 (outermost), 2 nested  *)
(* in fold 1 of container 1, and 3 nested in fold 3 of container 2.        *)
(* Container 1 has the fold elements 1 and 2, container 2 the fold element *)
(* 3, container 3 the fold element 4 or no child at all.                   *)
(***************************************************************************)
EXTENDS Integers, Sequences, FiniteSets, TLC

VARIABLES
    children,        \* DOM: el.children of each container (fixed by the document)
    content,         \* DOM: own scrollHeight of each fold's content, nested containers excluded
    bottom,          \* DOM: el.getBoundingClientRect().bottom of each container
    accordions,      \* the registry `accordions`, in creation order
    folds,           \* Accordion.folds
    parent,          \* Accordion.parent (0: undefined)
    parentFold,      \* Accordion.parentFold (0: undefined)
    childAccordions, \* Accordion.childAccordions
    edgeClass,       \* Accordion.edgeClass is truthy
    snapClass,       \* Accordion.snapClass is truthy
    height,          \* Accordion._height
    edgeOn,          \* el.classList contains edgeClass
    snapOn,          \* el.classList contains snapClass
    snapTimers,      \* pending setTimeout callbacks of refresh: remaining time, per accordion
    y,               \* Fold.y
    foldHeight,      \* Fold.height
    open,            \* Fold.open
    needsRefresh,    \* Fold.needsRefresh
    onResize,        \* Accordion.onResize: the closure last installed (id 0: undefined)
    listeners,       \* the "resize" listeners registered on window
    timers,          \* pending debounce timers: closure id and remaining quiet time
    closures,        \* number of closures setResizeRate has created
    rate,            \* the argument of the latest setResizeRate call
    burst,           \* resize events the installed listener took since its last pass
    direct,          \* number of direct updateFold calls made so far
    ev               \* the last operation: what was called, and on which accordion

vars == <<children, content, bottom, accordions, folds, parent, parentFold,
          childAccordions, edgeClass, snapClass, height, edgeOn, snapOn,
          snapTimers, y, foldHeight, open, needsRefresh, onResize, listeners,
          timers, closures, rate, burst, direct, ev>>

-----------------------------------------------------------------------------
(* Bounds *)

MaxDirect == 1        \* direct updateFold(fold, offset) calls in one behaviour
MaxPx == 8            \* largest height or offset, in pixels, a behaviour goes to
MaxClosures == 3      \* setResizeRate calls in one behaviour, the one at load included
MaxBurst == 2         \* resize events counted in one burst

Accs == {1, 2, 3}
FoldIds == {1, 2, 3, 4}
Offsets == {-1, 2}
ContentSizes == {0, 2}
UserFolds == {1, 3, 4}    \* the folds the user opens and closes
ResizableFolds == {3}     \* the folds whose own content the document resizes
Bottoms == {9, 10, 11}
RefreshedAccs == {1, 3}     \* the accordions the page calls refresh on; 2 is refreshed through 1
Waits == {10}               \* for how long time passes at once
ScrolledAccs == {1, 2}      \* the containers whose bottom edge moves
\* arguments of setResizeRate: <<is the literal false, number>>
RateArgs == {<<TRUE, 0>>, <<FALSE, -5>>, <<FALSE, 0>>, <<FALSE, 10>>}

-----------------------------------------------------------------------------
(* JavaScript numbers: integers, NaN and undefined *)

NaN == -99
Undefined == -98

EdgeOffsets == {0, 2, -2, NaN}

IsNum(x) == x \notin {NaN, Undefined}
Truthy(x) == IsNum(x) /\ x # 0
Plus(a, b) == IF IsNum(a) /\ IsNum(b) THEN a + b ELSE NaN
Minus(a, b) == IF IsNum(a) /\ IsNum(b) THEN a - b ELSE NaN

RECURSIVE SumSeq(_, _)
SumSeq(s, f) == IF s = <<>> THEN 0 ELSE Plus(f[Head(s)], SumSeq(Tail(s), f))

-----------------------------------------------------------------------------
(* The document *)

HeadingHeight == 1
WindowEdge == 10
SnapDelay == 20
InitialRate == 25

\* the fold elements enclosing each container, nearest first
AncestorFolds(a) == CASE a = 1 -> <<>> [] a = 2 -> <<1>> [] a = 3 -> <<3, 1>>
\* the container a fold element is a child of
FoldContainer(f) == CASE f \in {1, 2} -> 1 [] f = 3 -> 2 [] f = 4 -> 3
\* the containers directly inside a fold element's content
NestedIn(f) == {a \in Accs : AncestorFolds(a) # <<>> /\ Head(AncestorFolds(a)) = f}

-----------------------------------------------------------------------------
(* The heap the handlers work on.  A handler is a function from heap to    *)
(* heap; `calls` lists the methods invoked while it runs.                  *)

Heap == [height |-> height, y |-> y, fh |-> foldHeight, open |-> open,
         needs |-> needsRefresh, edgeOn |-> edgeOn, snapOn |-> snapOn,
         snapTimers |-> snapTimers, folds |-> folds, parent |-> parent,
         parentFold |-> parentFold, kids |-> childAccordions,
         edgeClass |-> edgeClass, snapClass |-> snapClass, calls |-> <<>>]

\* a call of method op on accordion a; snap: whether a's container carries the
\* snap class when the method starts
Called(S, op, a, arg) ==
    [S EXCEPT !.calls = Append(@, [op |-> op, a |-> a, arg |-> arg,
                                   snap |-> S.snapOn[a]])]

Max(a, b) == IF a >= b THEN a ELSE b
Range(s) == {s[i] : i \in DOMAIN s}
IndexOf(s, x) == CHOOSE i \in DOMAIN s : s[i] = x

RECURSIVE SumSet(_, _)
SumSet(set, f) ==
    IF set = {} THEN 0
    ELSE LET x == CHOOSE x \in set : TRUE IN f[x] + SumSet(set \ {x}, f)

\* DOM: el.style.height of a container, as last written by the height setter
StyleHeight(S, a) == IF S.height[a] = Undefined THEN 0 ELSE S.height[a]

\* DOM: fold.content.scrollHeight, the nested containers included
ContentScrollHeight(S, f) ==
    content[f] + SumSet(NestedIn(f), [a \in Accs |-> StyleHeight(S, a)])

\* Fold.fit(): heading size + content size if open, the closed size otherwise
FoldFit(S, f) ==
    HeadingHeight + (IF S.open[f] THEN ContentScrollHeight(S, f) ELSE 0)

\* set height(input)
SetHeight(S, a, input) ==
    IF Truthy(input) /\ input # S.height[a]
    THEN [S EXCEPT !.height[a] = input]
    ELSE S

\* the call this.parent.updateFold(parentFold, ...) made by accordion a from
\* its method `from`: logged with what the parent can observe of a then
Delegated(S, a, from) ==
    LET fs == S.folds[a] IN
    Called(S, "delegate", a,
           [from |-> from,
            height |-> S.height[a],
            sum |-> SumSeq(fs, S.fh),
            contiguous |-> \A i \in DOMAIN fs :
                              S.y[fs[i]] = SumSeq(SubSeq(fs, 1, i - 1), S.fh)])

\* as edgeCheck, deciding on bottom + offset alone
EdgeCheckOffsetOnly(S, a, offset) ==
    LET T == Called(S, "edgeCheck", a, offset) IN
    IF S.edgeClass[a]
    THEN LET off == IF Truthy(offset) THEN offset ELSE 0 IN
         IF bottom[a] + off < WindowEdge
         THEN [T EXCEPT !.edgeOn[a] = TRUE]
         ELSE [T EXCEPT !.edgeOn[a] = FALSE]
    ELSE T
\* edgeCheck(offset)
EdgeCheck(S, a, offset) ==
    LET T == Called(S, "edgeCheck", a, offset) IN
    IF S.edgeClass[a]
    THEN LET off == IF Truthy(offset) THEN offset ELSE 0 IN
         IF bottom[a] + off < WindowEdge
         THEN [T EXCEPT !.edgeOn[a] = TRUE]
         ELSE IF bottom[a] > WindowEdge
              THEN [T EXCEPT !.edgeOn[a] = FALSE]
              ELSE T
    ELSE T

\* updateFold(fold, offset), newer variant
RECURSIVE UpdateFold(_, _, _, _)
\* as updateFold, without the open-guard on the parent fold
UpdateFoldUnguarded(S, a, f, offset) ==
    LET fs == S.folds[a]
        k  == IndexOf(fs, f)
        pf == S.parentFold[a]
        S0 == Called(S, "updateFold", a, offset)
        S1 == [S0 EXCEPT !.y = [g \in FoldIds |->
                    IF \E i \in DOMAIN fs : i > k /\ fs[i] = g
                    THEN Plus(S0.y[g], offset) ELSE S0.y[g]]]
        S2 == IF pf = 0 THEN EdgeCheck(S1, a, offset) ELSE S1
        S3 == [S2 EXCEPT !.fh[f] = Plus(@, offset)]
        S4 == SetHeight(S3, a, Plus(S3.height[a], offset))
    IN  IF pf # 0
        THEN UpdateFold(Delegated(S4, a, "updateFold"), S4.parent[a], pf, offset)
        ELSE S4
\* as updateFold, checking the edge at every level
UpdateFoldChecksEveryLevel(S, a, f, offset) ==
    LET fs == S.folds[a]
        k  == IndexOf(fs, f)
        pf == S.parentFold[a]
        S0 == Called(S, "updateFold", a, offset)
        S1 == [S0 EXCEPT !.y = [g \in FoldIds |->
                    IF \E i \in DOMAIN fs : i > k /\ fs[i] = g
                    THEN Plus(S0.y[g], offset) ELSE S0.y[g]]]
        S2 == EdgeCheck(S1, a, offset)
        S3 == [S2 EXCEPT !.fh[f] = Plus(@, offset)]
        S4 == SetHeight(S3, a, Plus(S3.height[a], offset))
    IN  IF pf # 0 /\ S4.open[pf]
        THEN UpdateFold(Delegated(S4, a, "updateFold"), S4.parent[a], pf, offset)
        ELSE S4
\* as updateFold, shifting the fold itself along with its later siblings
UpdateFoldShiftsFromFold(S, a, f, offset) ==
    LET fs == S.folds[a]
        k  == IndexOf(fs, f)
        pf == S.parentFold[a]
        S0 == Called(S, "updateFold", a, offset)
        S1 == [S0 EXCEPT !.y = [g \in FoldIds |->
                    IF \E i \in DOMAIN fs : i >= k /\ fs[i] = g
                    THEN Plus(S0.y[g], offset) ELSE S0.y[g]]]
        S2 == IF pf = 0 THEN EdgeCheck(S1, a, offset) ELSE S1
        S3 == [S2 EXCEPT !.fh[f] = Plus(@, offset)]
        S4 == SetHeight(S3, a, Plus(S3.height[a], offset))
    IN  IF pf # 0 /\ S4.open[pf]
        THEN UpdateFold(Delegated(S4, a, "updateFold"), S4.parent[a], pf, offset)
        ELSE S4
\* as updateFold, with the open-guard inverted
UpdateFoldGuardInverted(S, a, f, offset) ==
    LET fs == S.folds[a]
        k  == IndexOf(fs, f)
        pf == S.parentFold[a]
        S0 == Called(S, "updateFold", a, offset)
        S1 == [S0 EXCEPT !.y = [g \in FoldIds |->
                    IF \E i \in DOMAIN fs : i > k /\ fs[i] = g
                    THEN Plus(S0.y[g], offset) ELSE S0.y[g]]]
        S2 == IF pf = 0 THEN EdgeCheck(S1, a, offset) ELSE S1
        S3 == [S2 EXCEPT !.fh[f] = Plus(@, offset)]
        S4 == SetHeight(S3, a, Plus(S3.height[a], offset))
    IN  IF pf # 0 /\ ~S4.open[pf]
        THEN UpdateFold(Delegated(S4, a, "updateFold"), S4.parent[a], pf, offset)
        ELSE S4
UpdateFold(S, a, f, offset) ==
    LET fs == S.folds[a]
        k  == IndexOf(fs, f)
        pf == S.parentFold[a]
        S0 == Called(S, "updateFold", a, offset)
        S1 == [S0 EXCEPT !.y = [g \in FoldIds |->
                    IF \E i \in DOMAIN fs : i > k /\ fs[i] = g
                    THEN Plus(S0.y[g], offset) ELSE S0.y[g]]]
        S2 == IF pf = 0 THEN EdgeCheck(S1, a, offset) ELSE S1
        S3 == [S2 EXCEPT !.fh[f] = Plus(@, offset)]
        S4 == SetHeight(S3, a, Plus(S3.height[a], offset))
    IN  IF pf # 0 /\ S4.open[pf]
        THEN UpdateFold(Delegated(S4, a, "updateFold"), S4.parent[a], pf, offset)
        ELSE S4

\* as update, handing the parent the new height instead of the difference
UpdateDelegatesHeight(S, a) ==
    LET fs == S.folds[a]
        S0 == Called(S, "update", a, 0)
        fit == [f \in FoldIds |-> IF f \in Range(fs) THEN FoldFit(S0, f) ELSE S0.fh[f]]
        S1 == [S0 EXCEPT
                 !.fh = fit,
                 !.y = [f \in FoldIds |->
                          IF f \in Range(fs)
                          THEN SumSeq(SubSeq(fs, 1, IndexOf(fs, f) - 1), fit)
                          ELSE S0.y[f]]]
        h    == SumSeq(fs, fit)
        diff == Minus(h, S1.height[a])
        pf   == S1.parentFold[a]
        S2 == IF pf # 0
              THEN (IF S1.open[pf]
                    THEN UpdateFold(Delegated(S1, a, "update"), S1.parent[a], pf, h)
                    ELSE S1)
              ELSE EdgeCheck(S1, a, diff)
    IN  SetHeight(S2, a, h)

\* as update, committing the height before the difference is handed on
UpdateCommitsFirst(S, a) ==
    LET fs == S.folds[a]
        S0 == Called(S, "update", a, 0)
        fit == [f \in FoldIds |-> IF f \in Range(fs) THEN FoldFit(S0, f) ELSE S0.fh[f]]
        S1 == [S0 EXCEPT
                 !.fh = fit,
                 !.y = [f \in FoldIds |->
                          IF f \in Range(fs)
                          THEN SumSeq(SubSeq(fs, 1, IndexOf(fs, f) - 1), fit)
                          ELSE S0.y[f]]]
        h    == SumSeq(fs, fit)
        diff == Minus(h, S1.height[a])
        pf   == S1.parentFold[a]
        C  == SetHeight(S1, a, h)
    IN  IF pf # 0
        THEN (IF C.open[pf]
              THEN UpdateFold(Delegated(C, a, "update"), C.parent[a], pf, diff)
              ELSE C)
        ELSE EdgeCheck(C, a, diff)

\* update()
Update(S, a) ==
    LET fs == S.folds[a]
        S0 == Called(S, "update", a, 0)
        fit == [f \in FoldIds |-> IF f \in Range(fs) THEN FoldFit(S0, f) ELSE S0.fh[f]]
        S1 == [S0 EXCEPT
                 !.fh = fit,
                 !.y = [f \in FoldIds |->
                          IF f \in Range(fs)
                          THEN SumSeq(SubSeq(fs, 1, IndexOf(fs, f) - 1), fit)
                          ELSE S0.y[f]]]
        h    == SumSeq(fs, fit)
        diff == Minus(h, S1.height[a])
        pf   == S1.parentFold[a]
        S2 == IF pf # 0
              THEN (IF S1.open[pf]
                    THEN UpdateFold(Delegated(S1, a, "update"), S1.parent[a], pf, diff)
                    ELSE S1)
              ELSE EdgeCheck(S1, a, diff)
    IN  SetHeight(S2, a, h)

\* refresh(allowSnap)
RECURSIVE Refresh(_, _, _)
RECURSIVE RefreshChildren(_, _, _)
RefreshChildren(S, cs, allowSnap) ==
    IF cs = <<>> THEN S
    ELSE LET c  == Head(cs)
             pf == S.parentFold[c]
             T  == IF S.open[pf]
                   THEN Refresh(S, c, allowSnap)
                   ELSE [S EXCEPT !.needs[pf] = TRUE]
         IN  RefreshChildren(T, Tail(cs), allowSnap)
\* as refresh, without the deferred removal of the snap class
RefreshKeepsSnap(S, a, allowSnap) ==
    LET snap == allowSnap /\ S.snapClass[a]
        S0 == Called(S, "refresh", a, 0)
        S1 == IF snap THEN [S0 EXCEPT !.snapOn[a] = TRUE] ELSE S0
        S2 == Update(S1, a)
    IN  RefreshChildren(S2, S2.kids[a], allowSnap)
Refresh(S, a, allowSnap) ==
    LET snap == allowSnap /\ S.snapClass[a]
        S0 == Called(S, "refresh", a, 0)
        S1 == IF snap THEN [S0 EXCEPT !.snapOn[a] = TRUE] ELSE S0
        S2 == Update(S1, a)
        S3 == RefreshChildren(S2, S2.kids[a], allowSnap)
    IN  IF snap THEN [S3 EXCEPT !.snapTimers[a] = @ \cup {SnapDelay}] ELSE S3

-----------------------------------------------------------------------------
(* The older variant (src/accordion.js): propagation is unconditional *)

\* updateFold(fold, offset), older variant
RECURSIVE OlderUpdateFold(_, _, _, _)
OlderUpdateFold(S, a, f, offset) ==
    LET fs == S.folds[a]
        k  == IndexOf(fs, f)
        pf == S.parentFold[a]
        S0 == Called(S, "updateFold", a, offset)
        S1 == [S0 EXCEPT !.y = [g \in FoldIds |->
                    IF \E i \in DOMAIN fs : i > k /\ fs[i] = g
                    THEN Plus(S0.y[g], offset) ELSE S0.y[g]]]
        S2 == IF pf = 0 THEN EdgeCheck(S1, a, offset) ELSE S1
        S3 == [S2 EXCEPT !.fh[f] = Plus(@, offset)]
        S4 == SetHeight(S3, a, Plus(S3.height[a], offset))
    IN  IF pf # 0
        THEN OlderUpdateFold(S4, S4.parent[a], pf, offset)
        ELSE S4

\* update(), older variant
OlderUpdate(S, a) ==
    LET fs == S.folds[a]
        S0 == Called(S, "update", a, 0)
        fit == [f \in FoldIds |-> IF f \in Range(fs) THEN FoldFit(S0, f) ELSE S0.fh[f]]
        S1 == [S0 EXCEPT
                 !.fh = fit,
                 !.y = [f \in FoldIds |->
                          IF f \in Range(fs)
                          THEN SumSeq(SubSeq(fs, 1, IndexOf(fs, f) - 1), fit)
                          ELSE S0.y[f]]]
        h    == SumSeq(fs, fit)
        diff == Minus(h, S1.height[a])
        pf   == S1.parentFold[a]
        S2 == IF pf # 0
              THEN OlderUpdateFold(S1, S1.parent[a], pf, diff)
              ELSE EdgeCheck(S1, a, diff)
    IN  SetHeight(S2, a, h)

-----------------------------------------------------------------------------
(* Construction *)

\* DOM: fold.el.clientHeight, the fold's box as sized by its style height
FoldClientHeight(S, f) ==
    IF IsNum(S.fh[f]) THEN Max(S.fh[f], 0)
    ELSE HeadingHeight + ContentScrollHeight(S, f)

\* DOM: fold.el.scrollHeight
FoldScrollHeight(S, f) ==
    Max(FoldClientHeight(S, f), HeadingHeight + ContentScrollHeight(S, f))

\* the ancestor walk of the constructor: the nearest enclosing element that
\* carries a fold marker, 0 when there is none
GetFold(a) ==
    LET af == AncestorFolds(a)
        marked == {i \in DOMAIN af : FoldContainer(af[i]) \in Range(accordions)}
    IN  IF marked = {} THEN 0
        ELSE af[CHOOSE i \in marked : \A j \in marked : i <= j]

\* new Accordion(el, options)
Constructor(S, a, eClass, sClass) ==
    LET S0 == [S EXCEPT !.folds[a] = children[a],
                        !.edgeClass[a] = eClass,
                        !.snapClass[a] = sClass]
        S1 == Update(S0, a)
        fold == GetFold(a)
    IN  IF fold = 0 THEN S1
        ELSE LET accordion == FoldContainer(fold)
                 S2 == [S1 EXCEPT !.parent[a] = accordion,
                                  !.parentFold[a] = fold,
                                  !.edgeOn[a] = IF eClass THEN FALSE ELSE @,
                                  !.kids[accordion] = Append(@, a)]
                 scrollHeight == FoldScrollHeight(S2, fold)
                 d1 == (HeadingHeight + ContentScrollHeight(S2, fold)) - scrollHeight
                 distance == IF d1 # 0 THEN d1
                             ELSE scrollHeight - FoldClientHeight(S2, fold)
             IN  IF S2.open[fold]
                 THEN UpdateFold(S2, accordion, fold, distance)
                 ELSE S2

\* Fold.open / Fold.close: toggle, recompute the height delta, propagate it;
\* a fold marked needsRefresh refreshes its accordion when it is opened
FoldToggle(S, f) ==
    LET a  == FoldContainer(f)
        S0 == [S EXCEPT !.open[f] = ~@]
    IN  IF S0.open[f] /\ S0.needs[f]
        THEN Refresh([S0 EXCEPT !.needs[f] = FALSE], a, FALSE)
        ELSE UpdateFold(S0, a, f, Minus(FoldFit(S0, f), S0.fh[f]))

-----------------------------------------------------------------------------
(* Actions *)

InRange(x) == ~IsNum(x) \/ (x <= MaxPx /\ x >= -MaxPx)

Commit(S) ==
    /\ \A a \in Accs : InRange(S.height[a])
    /\ \A f \in FoldIds : InRange(S.fh[f]) /\ InRange(S.y[f])
    /\ height' = S.height
    /\ y' = S.y
    /\ foldHeight' = S.fh
    /\ open' = S.open
    /\ needsRefresh' = S.needs
    /\ edgeOn' = S.edgeOn
    /\ snapOn' = S.snapOn
    /\ snapTimers' = S.snapTimers
    /\ folds' = S.folds
    /\ parent' = S.parent
    /\ parentFold' = S.parentFold
    /\ childAccordions' = S.kids
    /\ edgeClass' = S.edgeClass
    /\ snapClass' = S.snapClass

\* ev: the operation, its accordion, whether that accordion's height changed,
\* and a number: the resize events a pass answers, the offset of an edge
\* check, 2 for an update() that follows an update() of the same accordion,
\* 1 for refresh(true)
Event(op, a, S) == [op |-> op, a |-> a, changed |-> S.height[a] # height[a], n |-> 0]
Plain(op, a, n) == [op |-> op, a |-> a, changed |-> FALSE, n |-> n]

Constructed == Range(accordions)

Init ==
    /\ children \in {[a \in Accs |-> CASE a = 1 -> <<1, 2>> [] a = 2 -> <<3>> [] a = 3 -> c]
                      : c \in {<<>>, <<4>>}}
    /\ content = [f \in FoldIds |-> IF f \in {2, 4} THEN 1 ELSE 0]
    /\ bottom = [a \in Accs |-> WindowEdge - 1]
    /\ accordions = <<>>
    /\ folds = [a \in Accs |-> <<>>]
    /\ parent = [a \in Accs |-> 0]
    /\ parentFold = [a \in Accs |-> 0]
    /\ childAccordions = [a \in Accs |-> <<>>]
    /\ edgeClass = [a \in Accs |-> TRUE]
    /\ snapClass = [a \in Accs |-> TRUE]
    /\ height = [a \in Accs |-> Undefined]
    /\ edgeOn = [a \in Accs |-> FALSE]
    /\ snapOn = [a \in Accs |-> FALSE]
    /\ snapTimers = [a \in Accs |-> {}]
    /\ y = [f \in FoldIds |-> Undefined]
    /\ foldHeight = [f \in FoldIds |-> Undefined]
    /\ open = [f \in FoldIds |-> FALSE]
    /\ needsRefresh = [f \in FoldIds |-> FALSE]
    /\ onResize = [id |-> 1, delay |-> InitialRate]
    /\ listeners = {[id |-> 1, delay |-> InitialRate]}
    /\ timers = {}
    /\ closures = 1
    /\ rate = [off |-> FALSE, delay |-> InitialRate]
    /\ burst = 0
    /\ direct = 0
    /\ ev = Plain("load", 0, 0)

Dom == <<children, content, bottom>>
Coordinator == <<onResize, listeners, timers, closures, rate, burst>>

\* new Accordion(el, {edgeClass, snapClass}), on any container not yet built
ConstructAny(a, eClass, sClass) ==
    /\ a \notin Constructed
    /\ LET S == Constructor(Heap, a, eClass, sClass) IN
         /\ Commit(S)
         /\ ev' = Plain("construct", 0, 0)
    /\ accordions' = Append(accordions, a)
    /\ UNCHANGED <<Dom, Coordinator, direct>>

\* new Accordion(el, {edgeClass, snapClass})
Construct(a, eClass, sClass) ==
    \* the page builds its accordions in document order, outermost first
    /\ \A i \in DOMAIN AncestorFolds(a) : FoldContainer(AncestorFolds(a)[i]) \in Constructed
    /\ ConstructAny(a, eClass, sClass)

\* the user opens or closes a fold
Toggle(f) ==
    /\ f \in Range(folds[FoldContainer(f)])
    /\ LET S == FoldToggle(Heap, f) IN
         /\ Commit(S)
         /\ ev' = Plain("toggle", 0, 0)
    /\ UNCHANGED <<Dom, Coordinator, accordions, direct>>

\* a fold's content is resized by the document (an image loads, the width changes)
ContentResize(f, size) ==
    /\ f \in ResizableFolds
    /\ size # content[f]
    /\ content' = [content EXCEPT ![f] = size]
    /\ ev' = Plain("content", 0, 0)
    /\ UNCHANGED <<children, bottom, accordions, folds, parent, parentFold,
                   childAccordions, edgeClass, snapClass, height, edgeOn, snapOn,
                   snapTimers, y, foldHeight, open, needsRefresh, Coordinator, direct>>

\* accordion.update()
CallUpdate(a) ==
    /\ a \in Constructed
    /\ LET S == Update(Heap, a) IN
         /\ Commit(S)
         /\ ev' = [Event("update", a, S) EXCEPT
                    !.n = IF ev.op = "update" /\ ev.a = a THEN 2 ELSE 1]
    /\ UNCHANGED <<Dom, Coordinator, accordions, direct>>

\* accordion.updateFold(fold, offset)
CallUpdateFold(a, f, offset) ==
    /\ a \in Constructed
    /\ f \in Range(folds[a])
    /\ direct < MaxDirect
    /\ direct' = direct + 1
    /\ LET S == UpdateFold(Heap, a, f, offset) IN
         /\ Commit(S)
         /\ ev' = Event("updateFold", a, S)
    /\ UNCHANGED <<Dom, Coordinator, accordions>>

\* accordion.refresh(allowSnap)
CallRefresh(a, allowSnap) ==
    /\ a \in Constructed
    /\ LET S == Refresh(Heap, a, allowSnap) IN
         /\ Commit(S)
         /\ ev' = Plain("refresh", 0, IF allowSnap THEN 1 ELSE 0)
    /\ UNCHANGED <<Dom, Coordinator, accordions, direct>>

-----------------------------------------------------------------------------
(* Resize coordinator *)

\* as the listener, refreshing every accordion
RECURSIVE ResizeAll(_, _)
ResizeAll(S, as) ==
    IF as = <<>> THEN S
    ELSE ResizeAll(Refresh(Called(S, "start", Head(as), 0), Head(as), TRUE), Tail(as))
\* the listener of setResizeRate: every accordion without a parent is refreshed
RECURSIVE ResizeHandler(_, _)
ResizeHandler(S, as) ==
    IF as = <<>> THEN S
    ELSE LET i == Head(as) IN
         ResizeHandler(IF S.parent[i] # 0 THEN S
                       ELSE Refresh(Called(S, "start", i, 0), i, TRUE),
                       Tail(as))

\* as Installed, never debouncing
InstalledUndebounced(id, delay) == [id |-> id, delay |-> 0]
\* what setResizeRate installs as onResize: debounce(fn, delay), or fn itself
\* (delay 0)
Installed(id, delay) == [id |-> id, delay |-> delay]

\* as setResizeRate, leaving the previous listener registered
SetResizeRateKeepsListener(isFalse, delay) ==
    /\ closures < MaxClosures
    /\ IF ~isFalse /\ delay >= 0
       THEN /\ onResize' = Installed(closures + 1, delay)
            /\ listeners' = listeners \cup {Installed(closures + 1, delay)}
       ELSE /\ onResize' = onResize
            /\ listeners' = listeners
    /\ closures' = closures + 1
    /\ rate' = [off |-> isFalse, delay |-> delay]
    /\ burst' = 0
    /\ ev' = Plain("setResizeRate", closures + 1, 0)
    /\ UNCHANGED <<Dom, accordions, folds, parent, parentFold, childAccordions,
                   edgeClass, snapClass, height, edgeOn, snapOn, snapTimers, y,
                   foldHeight, open, needsRefresh, timers, direct>>

\* Accordion.setResizeRate(delay)
SetResizeRate(isFalse, delay) ==
    /\ closures < MaxClosures
    /\ IF ~isFalse /\ delay >= 0
       THEN /\ onResize' = Installed(closures + 1, delay)
            /\ listeners' = (listeners \ {onResize}) \cup {Installed(closures + 1, delay)}
       ELSE /\ onResize' = onResize
            /\ listeners' = listeners \ {onResize}
    /\ closures' = closures + 1
    /\ rate' = [off |-> isFalse, delay |-> delay]
    /\ burst' = 0
    /\ ev' = Plain("setResizeRate", closures + 1, 0)
    /\ UNCHANGED <<Dom, accordions, folds, parent, parentFold, childAccordions,
                   edgeClass, snapClass, height, edgeOn, snapOn, snapTimers, y,
                   foldHeight, open, needsRefresh, timers, direct>>

\* debounce(fn, delay): each call restarts the closure's quiet period
Debounce(ts, l) == {t \in ts : t.id # l.id} \cup {[id |-> l.id, left |-> l.delay]}

\* the window fires "resize"
ResizeEvent ==
    /\ IF \E l \in listeners : l.delay = 0
       THEN LET S == ResizeHandler(Heap, accordions) IN
              /\ Commit(S)
              /\ ev' = Plain("resizePass", onResize.id, 1)
              /\ burst' = 0
              /\ timers' = timers
       ELSE /\ timers' = IF listeners = {} THEN timers
                         ELSE Debounce(timers, CHOOSE l \in listeners : TRUE)
            /\ burst' = IF listeners = {} THEN burst
                        ELSE IF burst < MaxBurst THEN burst + 1 ELSE burst
            /\ ev' = Plain("resize", 0, 0)
            /\ UNCHANGED <<folds, parent, parentFold, childAccordions, edgeClass,
                           snapClass, height, edgeOn, snapOn, snapTimers, y,
                           foldHeight, open, needsRefresh>>
    /\ UNCHANGED <<Dom, accordions, onResize, listeners, closures, rate, direct>>

\* a debounce timer ends: the listener's function runs once
DebounceFire ==
    \E t \in timers :
        /\ t.left = 0
        /\ timers' = timers \ {t}
        /\ LET S == ResizeHandler(Heap, accordions) IN
             /\ Commit(S)
             /\ ev' = Plain("timerPass", t.id, IF t.id = onResize.id THEN burst ELSE 0)
        /\ burst' = IF t.id = onResize.id THEN 0 ELSE burst
        /\ UNCHANGED <<Dom, accordions, onResize, listeners, closures, rate, direct>>

\* the callback refresh(true) deferred: the snap class is removed
SnapTimeout(a) ==
    /\ 0 \in snapTimers[a]
    /\ snapTimers' = [snapTimers EXCEPT ![a] = @ \ {0}]
    /\ snapOn' = [snapOn EXCEPT ![a] = FALSE]
    /\ ev' = Plain("snapTimeout", a, 0)
    /\ UNCHANGED <<Dom, Coordinator, accordions, folds, parent, parentFold,
                   childAccordions, edgeClass, snapClass, height, edgeOn, y,
                   foldHeight, open, needsRefresh, direct>>

\* time passes until the next timer is due
Tick ==
    LET due == {t.left : t \in timers} \cup UNION {snapTimers[a] : a \in Accs} IN
    /\ due # {}
    /\ 0 \notin due
    /\ LET dt == CHOOSE d \in due : \A e \in due : d <= e IN
         /\ timers' = {[t EXCEPT !.left = @ - dt] : t \in timers}
         /\ snapTimers' = [a \in Accs |-> {t - dt : t \in snapTimers[a]}]
    /\ ev' = Plain("tick", 0, 0)
    /\ UNCHANGED <<Dom, accordions, folds, parent, parentFold, childAccordions,
                   edgeClass, snapClass, height, edgeOn, snapOn, y, foldHeight,
                   open, needsRefresh, onResize, listeners, closures, rate, burst, direct>>

\* time passes, by less than or up to what the next timer has left
Wait(dt) ==
    LET due == {t.left : t \in timers} \cup UNION {snapTimers[a] : a \in Accs} IN
    /\ due # {}
    /\ \A d \in due : dt <= d
    /\ timers' = {[t EXCEPT !.left = @ - dt] : t \in timers}
    /\ snapTimers' = [a \in Accs |-> {t - dt : t \in snapTimers[a]}]
    /\ ev' = Plain("wait", 0, 0)
    /\ UNCHANGED <<Dom, accordions, folds, parent, parentFold, childAccordions,
                   edgeClass, snapClass, height, edgeOn, snapOn, y, foldHeight,
                   open, needsRefresh, onResize, listeners, closures, rate, burst, direct>>

-----------------------------------------------------------------------------
(* Edge visibility *)

\* the page scrolls or is laid out anew: a container's bottom edge moves
Scroll(a, b) ==
    /\ b # bottom[a]
    /\ bottom' = [bottom EXCEPT ![a] = b]
    /\ ev' = Plain("scroll", 0, 0)
    /\ UNCHANGED <<children, content, Coordinator, accordions, folds, parent,
                   parentFold, childAccordions, edgeClass, snapClass, height,
                   edgeOn, snapOn, snapTimers, y, foldHeight, open, needsRefresh,
                   direct>>

\* accordion.edgeCheck(offset) on a root accordion
CallEdgeCheck(a, offset) ==
    /\ a \in Constructed
    /\ parentFold[a] = 0
    /\ LET S == EdgeCheck(Heap, a, offset) IN
         /\ Commit(S)
         /\ ev' = Plain("edgeCheck", a, offset)
    /\ UNCHANGED <<Dom, Coordinator, accordions, direct>>

\* the transitionEnd listener of the constructor, for the container's height
TransitionEnd(a) ==
    /\ a \in Constructed
    /\ edgeClass[a]
    /\ edgeOn' = IF parent[a] = 0 /\ bottom[a] > WindowEdge
                 THEN [edgeOn EXCEPT ![a] = FALSE]
                 ELSE edgeOn
    /\ ev' = Plain("transitionEnd", 0, 0)
    /\ UNCHANGED <<Dom, Coordinator, accordions, folds, parent, parentFold,
                   childAccordions, edgeClass, snapClass, height, snapOn,
                   snapTimers, y, foldHeight, open, needsRefresh, direct>>

-----------------------------------------------------------------------------
(* Specifications *)

\* the layout engine under direct calls, fold toggles and content changes
Next ==
    \/ \E a \in Accs : Construct(a, TRUE, TRUE)
    \/ \E f \in UserFolds : Toggle(f)
    \/ \E f \in FoldIds, size \in ContentSizes : ContentResize(f, size)
    \/ \E a \in Accs : CallUpdate(a)
    \/ \E a \in Accs, f \in FoldIds, offset \in Offsets : CallUpdateFold(a, f, offset)
    \/ \E a \in RefreshedAccs : CallRefresh(a, FALSE)

Spec == Init /\ [][Next]_vars

\* the resize coordinator: resize events, debounce timers and the passes they
\* start, on accordions built with the option snapClass: ""
NextResize ==
    \/ \E a \in Accs : Construct(a, TRUE, FALSE)
    \/ \E f \in UserFolds : Toggle(f)
    \/ \E r \in RateArgs : SetResizeRate(r[1], r[2])
    \/ ResizeEvent
    \/ DebounceFire
    \/ Tick

SpecResize == Init /\ [][NextResize]_vars

\* edge visibility: the containers move in the viewport, with and without
\* the option edgeClass
NextEdge ==
    \/ \E a \in Accs, e \in BOOLEAN : Construct(a, e, FALSE)
    \/ \E f \in UserFolds : Toggle(f)
    \/ \E a \in ScrolledAccs, b \in Bottoms : Scroll(a, b)
    \/ \E a \in Accs, offset \in EdgeOffsets : CallEdgeCheck(a, offset)
    \/ \E a \in Accs : CallUpdate(a)
    \/ \E a \in Accs : TransitionEnd(a)

SpecEdge == Init /\ [][NextEdge]_vars

\* refresh with and without snapping, and the deferred removals of the snap
\* class; the timers of the host end, and time does not stop
NextSnap ==
    \/ \E a \in Accs : Construct(a, FALSE, TRUE)
    \/ Toggle(1)
    \/ \E a \in RefreshedAccs, allowSnap \in BOOLEAN : CallRefresh(a, allowSnap)
    \/ \E a \in Accs : SnapTimeout(a)
    \/ \E dt \in Waits : Wait(dt)

SpecSnap ==
    /\ Init /\ [][NextSnap]_vars
    /\ \A a \in Accs : WF_vars(SnapTimeout(a))
    /\ \A dt \in Waits : WF_vars(Wait(dt))

\* the layout engine on a page that builds its accordions in any order: an
\* inner container built before the outer ones is a root
NextUnordered ==
    \/ \E a \in Accs, e \in BOOLEAN : ConstructAny(a, e, FALSE)
    \/ \E f \in UserFolds : Toggle(f)
    \/ \E a \in Accs : CallUpdate(a)
    \/ \E a \in Accs : CallRefresh(a, FALSE)

SpecUnordered == Init /\ [][NextUnordered]_vars

-----------------------------------------------------------------------------
(* Properties of the layout engine *)

\* an accordion's stored height, read as a number (undefined before the first write)
HeightOf(h, a) == IF h[a] = Undefined THEN 0 ELSE h[a]

\* the accordions an accordion is nested in, through parent links
RECURSIVE AncestorsOf(_)
AncestorsOf(a) == IF parent[a] = 0 THEN {} ELSE {parent[a]} \cup AncestorsOf(parent[a])

\* the handler left accordion a as it was
Untouched(S, a) ==
    /\ S.height[a] = height[a]
    /\ \A f \in Range(folds[a]) : S.fh[f] = foldHeight[f] /\ S.y[f] = y[f]

\* C1: at rest, every accordion's height equals the sum of its folds' heights
HeightConservation ==
    \A a \in Constructed :
        /\ IsNum(SumSeq(folds[a], foldHeight))
        /\ HeightOf(height, a) = SumSeq(folds[a], foldHeight)

\* C2: the first fold sits at 0 and each fold starts where the previous one ends
OffsetContiguity ==
    \A a \in Constructed :
        \A i \in DOMAIN folds[a] :
            /\ IsNum(y[folds[a][i]])
            /\ y[folds[a][i]] = SumSeq(SubSeq(folds[a], 1, i - 1), foldHeight)

\* C3: no update() or updateFold() on an accordion at or below a closed hosting
\* fold changes the accordion owning that fold, or any ancestor of it
ClosedFoldStopsPropagation ==
    \A b \in Constructed :
        (parentFold[b] # 0 /\ ~open[parentFold[b]]) =>
            \A d \in {b} \cup {c \in Constructed : b \in AncestorsOf(c)} :
                \A up \in AncestorsOf(b) :
                    /\ Untouched(Update(Heap, d), up)
                    /\ \A f \in Range(folds[d]), offset \in Offsets :
                           Untouched(UpdateFold(Heap, d, f, offset), up)

C3Witness ==
    /\ ev.op \in {"update", "updateFold"}
    /\ ev.a = 3
    /\ parentFold[3] = 3 /\ open[3]
    /\ parentFold[2] = 1 /\ ~open[1]
    /\ HeightOf(height, 2) # HeadingHeight

\* the levels updateFold(f, offset) on accordion a reaches: a itself, then each
\* parent whose hosting fold is open, up to the first root or closed hosting fold
RECURSIVE BubbleLevels(_, _)
BubbleLevels(a, f) ==
    {<<a, f>>} \cup
    (IF parentFold[a] # 0 /\ open[parentFold[a]]
     THEN BubbleLevels(parent[a], parentFold[a])
     ELSE {})

\* C4: updateFold(fold, offset) changes the fold's height and the accordion's
\* height by exactly offset at every level it reaches
DeltaBubbling ==
    \A a \in Constructed : \A f \in Range(folds[a]), offset \in Offsets :
        LET S == UpdateFold(Heap, a, f, offset) IN
        \A lv \in BubbleLevels(a, f) :
            /\ S.fh[lv[2]] = Plus(foldHeight[lv[2]], offset)
            /\ S.height[lv[1]] = Plus(height[lv[1]], offset)

\* C5: a second update() right after the first changes neither the accordion's
\* height and fold offsets nor any ancestor's height or fold heights
UpdateIdempotent ==
    \A a \in Constructed :
        LET S1 == Update(Heap, a)
            S2 == Update(S1, a)
        IN  /\ S2.height[a] = S1.height[a]
            /\ \A f \in Range(folds[a]) : S2.y[f] = S1.y[f]
            /\ \A up \in AncestorsOf(a) :
                   /\ S2.height[up] = S1.height[up]
                   /\ \A f \in Range(folds[up]) : S2.fh[f] = S1.fh[f]

C5Witness ==
    /\ ev.op = "update" /\ ev.n = 2 /\ ev.a = 3
    /\ children[3] # <<>>
    /\ parentFold[3] = 3 /\ open[3]
    /\ parentFold[2] = 1 /\ open[1]
    /\ height[1] = SumSeq(folds[1], foldHeight)

\* C8: opening a closed hosting fold after the nested accordion changed size
\* leaves the fold accounting for the nested accordion's height, and the
\* owning accordion's height equal to the sum of its folds
DeferredReconciliation ==
    \A b \in Constructed :
        (/\ parentFold[b] # 0 /\ ~open[parentFold[b]]
         /\ ev.op \in {"update", "updateFold"} /\ ev.a = b /\ ev.changed) =>
            LET F == parentFold[b]
                S == FoldToggle(Heap, F)
            IN  /\ S.fh[F] = HeadingHeight + content[F]
                              + SumSet(NestedIn(F), [c \in Accs |-> HeightOf(S.height, c)])
                /\ HeightOf(S.height, parent[b]) = SumSeq(folds[parent[b]], S.fh)

Delegations(S) == {i \in DOMAIN S.calls : S.calls[i].op = "delegate"}

\* the accordion satisfies offset contiguity in the current state
Contiguous(a) ==
    \A i \in DOMAIN folds[a] :
        y[folds[a][i]] = SumSeq(SubSeq(folds[a], 1, i - 1), foldHeight)

\* what the height setter leaves when asked to add offset
AfterSet(h, offset) == IF Truthy(Plus(h, offset)) THEN Plus(h, offset) ELSE h

\* C13, as stated, for update(): whenever an accordion delegates to its
\* parent from update(), its height equals the sum of its fold heights and
\* its folds are contiguous
ConsistentChildAtDelegation ==
    \A a \in Constructed :
        LET S == Update(Heap, a) IN
        \A i \in Delegations(S) :
            S.calls[i].arg.from = "update" =>
                /\ HeightOf([b \in Accs |-> S.calls[i].arg.height], a) = S.calls[i].arg.sum
                /\ S.calls[i].arg.contiguous

\* a delegation made from updateFold(_, offset) by accordion b: the siblings
\* are shifted, the fold's height is written and the height setter has run
FromUpdateFold(d, b, offset) ==
    /\ d.from = "updateFold"
    /\ d.sum = Plus(SumSeq(folds[b], foldHeight), offset)
    /\ d.height = AfterSet(height[b], offset)
    /\ Contiguous(b) => d.contiguous

\* C13, amended: an accordion delegating from updateFold has shifted its later
\* siblings, written the fold's height and run its height setter; an accordion
\* delegating from update() has refit and placed every fold, but its stored
\* height is still the previous one
DelegationOrder ==
    \A a \in Constructed :
        /\ LET S == Update(Heap, a) IN
           \A i \in Delegations(S) :
               LET d == S.calls[i].arg
                   b == S.calls[i].a
                   h == SumSeq(folds[a], [f \in FoldIds |-> FoldFit(Heap, f)])
               IN  IF b = a
                   THEN /\ d.from = "update"
                        /\ d.contiguous
                        /\ d.sum = h
                        /\ d.height = height[a]
                   ELSE FromUpdateFold(d, b, Minus(h, height[a]))
        /\ \A f \in Range(folds[a]), offset \in Offsets :
               LET S == UpdateFold(Heap, a, f, offset) IN
               \A i \in Delegations(S) :
                   FromUpdateFold(S.calls[i].arg, S.calls[i].a, offset)

C13Witness ==
    /\ ev.op = "update" /\ ev.a = 3 /\ ev.changed
    /\ parentFold[3] = 3 /\ open[3]
    /\ parentFold[2] = 1 /\ open[1]
    /\ height[3] = SumSeq(folds[3], foldHeight)

\* C14: updateFold(fold, offset) adds offset to the y of every later sibling of
\* fold and leaves alone fold.y, the y and height of the earlier siblings, the
\* height and open state of the later siblings, and everything of the
\* accordions that are neither the accordion nor one of its ancestors
SiblingShiftAndFrame ==
    \A a \in Constructed : \A f \in Range(folds[a]), offset \in Offsets :
        LET S  == UpdateFold(Heap, a, f, offset)
            fs == folds[a]
            k  == IndexOf(fs, f)
        IN  /\ S.y[f] = y[f]
            /\ \A i \in DOMAIN fs :
                   /\ i < k => (S.y[fs[i]] = y[fs[i]] /\ S.fh[fs[i]] = foldHeight[fs[i]])
                   /\ i > k => /\ S.y[fs[i]] = Plus(y[fs[i]], offset)
                               /\ S.fh[fs[i]] = foldHeight[fs[i]]
            /\ S.open = open
            /\ \A b \in Accs \ ({a} \cup AncestorsOf(a)) :
                   /\ Untouched(S, b)
                   /\ S.edgeOn[b] = edgeOn[b] /\ S.snapOn[b] = snapOn[b]
                   /\ S.folds[b] = folds[b] /\ S.parent[b] = parent[b]
                   /\ \A g \in Range(folds[b]) : S.needs[g] = needsRefresh[g]

C14Witness ==
    /\ ev.op = "updateFold" /\ ev.a = 1 /\ ev.changed
    /\ Constructed = Accs
    /\ ~open[1]
    /\ foldHeight[1] = HeadingHeight + 2
    /\ y[2] = HeadingHeight + 2

\* C18: update() and refresh() hand a number to the parent's updateFold, and
\* no accordion height, fold height or fold offset of a constructed accordion
\* is ever not a number
NoUndefinedDelta ==
    \A a \in Constructed :
        /\ height[a] # NaN
        /\ \A f \in Range(folds[a]) : IsNum(foldHeight[f]) /\ IsNum(y[f])
        /\ \A S \in {Update(Heap, a), Refresh(Heap, a, FALSE)} :
               \A i \in DOMAIN S.calls :
                   S.calls[i].op = "updateFold" => IsNum(S.calls[i].arg)

-----------------------------------------------------------------------------
(* Properties of the resize coordinator *)

DebouncedRate == ~rate.off /\ rate.delay > 0
ImmediateRate == ~rate.off /\ rate.delay = 0
OwnTimers(ts) == {t \in ts : t.id = onResize.id}

\* C6: under a positive rate a resize event starts no pass but (re)starts the
\* full quiet period, and the one pass of the burst runs when that period has
\* ended; under rate 0 every resize event runs its own pass at once
ResizeCoalescing ==
    /\ [](DebouncedRate => /\ Cardinality(OwnTimers(timers)) <= 1
                           /\ (burst >= 1) <=> (OwnTimers(timers) # {}))
    /\ [][/\ (ImmediateRate /\ ev'.op \in {"resize", "resizePass"}) =>
                 ev'.op = "resizePass"
          /\ (DebouncedRate /\ ev'.op \in {"resize", "resizePass"}) =>
                 /\ ev'.op = "resize"
                 /\ OwnTimers(timers') = {[id |-> onResize.id, left |-> rate.delay]}
          /\ (DebouncedRate /\ ev'.op = "timerPass" /\ ev'.a = onResize.id) =>
                 /\ ev'.n >= 1
                 /\ [id |-> onResize.id, left |-> 0] \in timers
                 /\ OwnTimers(timers') = {}
                 /\ burst' = 0]_vars

C6Witness ==
    /\ ev.op = "timerPass" /\ ev.a = onResize.id /\ ev.n >= 2
    /\ DebouncedRate
    /\ Constructed = Accs

\* the accordions whose hosting folds are open all the way up to their root
RECURSIVE ChainOpen(_)
ChainOpen(a) ==
    parentFold[a] = 0 \/ (open[parentFold[a]] /\ ChainOpen(parent[a]))

CallCount(S, op, a) == Cardinality({i \in DOMAIN S.calls : S.calls[i].op = op /\ S.calls[i].a = a})

\* C7: a resize pass starts refresh on parentless accordions only, runs
\* update() once on each accordion whose hosting folds are all open and never
\* on the others, and marks each closed fold hosting a child of a refreshed
\* accordion
RefreshCascadeScope ==
    LET S == ResizeHandler(Heap, accordions) IN
    /\ \A i \in DOMAIN S.calls : S.calls[i].op = "start" => parent[S.calls[i].a] = 0
    /\ \A a \in Constructed :
           CallCount(S, "update", a) = IF ChainOpen(a) THEN 1 ELSE 0
    /\ \A c \in Constructed :
           (parentFold[c] # 0 /\ ~open[parentFold[c]] /\ ChainOpen(parent[c])) =>
               S.needs[parentFold[c]]

C7Witness ==
    /\ ev.op \in {"timerPass", "resizePass"}
    /\ Constructed = Accs
    /\ open[1] /\ ~open[3]
    /\ needsRefresh[3] /\ ~needsRefresh[1]

\* C11: whatever setResizeRate calls were made, at most one listener is
\* registered on the window, and none when the latest call passed false or a
\* negative value
SingleResizeListener ==
    /\ Cardinality(listeners) <= 1
    /\ (rate.off \/ rate.delay < 0) => listeners = {}
    /\ (~rate.off /\ rate.delay >= 0) => listeners = {onResize}

C11Witness ==
    /\ ev.op = "setResizeRate" /\ closures = 3
    /\ onResize.id = 2
    /\ rate.delay < 0
    /\ listeners = {}

\* the two heaps hold the same heights, fold heights and fold offsets
SameLayout(S, T) == S.height = T.height /\ S.fh = T.fh /\ S.y = T.y

\* C15: on the same tree, update() and updateFold() of the older and of the
\* newer variant leave the same heights and fold offsets whenever the hosting
\* folds above the accordion acted on are all open; the variants differ only
\* when the delta starts below a closed hosting fold
VariantEquivalence ==
    \A a \in Constructed :
        ChainOpen(a) =>
            /\ SameLayout(OlderUpdate(Heap, a), Update(Heap, a))
            /\ \A f \in Range(folds[a]), offset \in Offsets :
                   SameLayout(OlderUpdateFold(Heap, a, f, offset),
                              UpdateFold(Heap, a, f, offset))

C15Witness ==
    /\ ev.op = "updateFold" /\ ev.a = 3 /\ ev.changed
    /\ parentFold[3] = 3 /\ open[3]
    /\ parentFold[2] = 1 /\ open[1]
    /\ SameLayout(OlderUpdate(Heap, 3), Update(Heap, 3))

\* C17: while the latest setResizeRate call passed false or a negative value,
\* no refresh pass runs, whether for a resize event fired after the call or for
\* one fired before it whose delay had not ended
DisableCancelsPending ==
    (rate.off \/ rate.delay < 0) => ev.op \notin {"timerPass", "resizePass"}

-----------------------------------------------------------------------------
(* Properties of the snap class *)

\* C16: in refresh(true) every update() of an accordion with a snapClass runs
\* with the snap class on its container, and the class is still there when
\* the pass returns; the class is absent whenever no deferred removal is
\* pending, and a container carrying it loses it eventually; refresh(false)
\* adds the class nowhere
SnapLifetime ==
    /\ [](\A a \in Constructed :
            LET S == Refresh(Heap, a, TRUE) IN
            /\ \A i \in DOMAIN S.calls :
                   (S.calls[i].op = "update" /\ snapClass[S.calls[i].a]) =>
                       (S.calls[i].snap /\ S.snapOn[S.calls[i].a])
            /\ Refresh(Heap, a, FALSE).snapOn = snapOn)
    /\ [](\A a \in Accs : snapTimers[a] = {} => ~snapOn[a])
    /\ [][(ev'.op = "refresh" /\ ev'.n = 0) => snapOn' = snapOn]_vars
    /\ \A a \in Accs : snapOn[a] ~> ~snapOn[a]

C16Witness ==
    /\ ev.op = "snapTimeout"
    /\ snapTimers[ev.a] = {10}
    /\ ~snapOn[ev.a]
    /\ \E b \in Accs \ {ev.a} : snapOn[b]

-----------------------------------------------------------------------------
(* Properties of edge visibility *)

\* C9: edgeCheck(offset) enables the class when bottom + offset is above the
\* window edge, disables it when it is not and the bottom is already below the
\* edge, and otherwise leaves it; without an edgeClass it changes nothing.  A
\* container 1px above the edge gets the class by edgeCheck(0) and keeps it
\* under a following edgeCheck(2)
EdgeCheckDecision ==
    [][ev'.op = "edgeCheck" =>
         LET a   == ev'.a
             off == IF Truthy(ev'.n) THEN ev'.n ELSE 0
         IN  /\ \A b \in Accs \ {a} : edgeOn'[b] = edgeOn[b]
             /\ IF ~edgeClass[a] THEN edgeOn'[a] = edgeOn[a]
                ELSE IF bottom[a] + off < WindowEdge THEN edgeOn'[a]
                ELSE IF bottom[a] > WindowEdge THEN ~edgeOn'[a]
                ELSE edgeOn'[a] = edgeOn[a]
             /\ (/\ edgeClass[a] /\ bottom[a] = WindowEdge - 1
                 /\ ev.op = "edgeCheck" /\ ev.a = a /\ ev.n = 0 /\ ev'.n = 2) =>
                    (edgeOn[a] /\ edgeOn'[a])]_vars

C9Witness ==
    /\ ev.op = "edgeCheck" /\ ev.n = 2
    /\ edgeClass[ev.a] /\ bottom[ev.a] = WindowEdge - 1
    /\ edgeOn[ev.a]

EdgeCalls(S) == {i \in DOMAIN S.calls : S.calls[i].op = "edgeCheck"}

\* the edge checks of one triggering call: on parentless accordions only, one
\* when the propagation from accordion a reaches a root, none when it stops
RootEdgeChecks(S, a) ==
    /\ \A i \in EdgeCalls(S) : parentFold[S.calls[i].a] = 0
    /\ Cardinality(EdgeCalls(S)) = IF ChainOpen(a) THEN 1 ELSE 0

\* C10: update() and updateFold() check the edge on parentless accordions
\* only, once if the propagation reaches a root and never if it stops at a
\* closed hosting fold; a nested accordion never carries the edge class
EdgeChecksOnRootsOnly ==
    /\ \A a \in Constructed :
           /\ RootEdgeChecks(Update(Heap, a), a)
           /\ \A f \in Range(folds[a]), offset \in Offsets :
                  RootEdgeChecks(UpdateFold(Heap, a, f, offset), a)
    /\ \A a \in Constructed : parentFold[a] # 0 => ~edgeOn[a]

C10Witness ==
    /\ ev.op = "update" /\ ev.a = 3
    /\ parentFold[3] = 3 /\ open[3]
    /\ parentFold[2] = 1 /\ open[1]
    /\ edgeClass[1] /\ edgeOn[1]
    /\ edgeClass[2] /\ edgeClass[3]

====
